---- MODULE Spec2Model ----
(***************************************************************************)
(* Model of the OEM quote calculator (app/services/calculator.py), the      *)
(* ingredient catalog it reads (app/services/ingredient.py), the ratio      *)
(* suggestion (app/services/reference.py) and the search and LLM managers   *)
(* (app/providers/search.py, app/providers/llm.py).  Four specifications    *)
(* share the variables: Spec (quotes), SpecRatio (excipient and ratio       *)
(* suggestion), SpecSearch (search with fallback), SpecLLM (generation).    *)
(*                                                                         *)
(* Units.  The Python code computes on floats; the model computes the same *)
(* expressions on integers:                                                *)
(*   - a mass is held in grams, so total_kg = total_g / 1000;              *)
(*   - a ratio is held in tenths of a percent, so ratio = ratio10 / 10;    *)
(*   - int(x) on a quotient is Trunc (truncation toward zero).             *)
(* The requested values are chosen so that the floats involved are exact   *)
(* binary fractions (per-box masses are multiples of 125 g = 1/8 kg, the   *)
(* ratios 25 and 100 give ratio/100 = 0.25 and 1.0); on them the float     *)
(* results of the source and the integer results of the model coincide.    *)
(* On other values a float product may land just below a whole number and  *)
(* int() then yields one less than the exact quotient; that rounding is    *)
(* not modelled.  Main ratios of recommend_excipients run over every       *)
(* tenth of a percent; where round(x, 1) meets a decimal tie both          *)
(* directions are admitted (TieChoices).                                   *)
(* Catalog keys that are Korean in the source are spelled in ASCII:        *)
(*   "stick" = the per-pouch packaging entry, "box" = the per-box entry.   *)
(***************************************************************************)
EXTENDS Integers, Sequences, FiniteSets, TLC

VARIABLES catalog, spec, result, suggestion,
          search_manager, search_call, llm_manager, llm_call

vars == <<catalog, spec, result, suggestion,
          search_manager, search_call, llm_manager, llm_call>>

(* ------------------------------ bounds --------------------------------- *)

\* longest ingredient_ratios mapping of a requested spec
MaxIngredients == 2
\* small box counts 0..MaxBoxes are requested next to the large ones
MaxBoxes == 2
\* main ratios 0.0 .. MaxMainRatio10 / 10 percent are asked for, in tenths
MaxMainRatio10 == 1003

(* ------------------------- program constants --------------------------- *)

DefaultMoqBoxes == 2000
DefaultMinKg == 300

(* ------------------------------ helpers -------------------------------- *)

\* dict.get(key, default)
Get(d, k, default) == IF k \in DOMAIN d THEN d[k] ELSE default

Has(d, k) == k \in DOMAIN d

\* int(n / d) for d > 0: truncation toward zero
Trunc(n, d) == IF n >= 0 THEN n \div d ELSE -((-n) \div d)

Max(a, b) == IF a >= b THEN a ELSE b

EmptyDict == [k \in {} |-> 0]

(* ------------------------------ inputs --------------------------------- *)

IngredientNames == {"psyllium", "cellulose", "unobtainium"}

\* ingredients section: name -> price_per_kg
IngredientTables ==
  { [n \in {"psyllium", "cellulose"} |-> IF n = "psyllium" THEN 1500 ELSE 333],
    [n \in {"psyllium"} |-> 1500] }

\* product_types section: type -> processing_cost_key
ProductTypeTable ==
  [t \in {"pill", "powder"} |-> IF t = "pill" THEN "pill_cost" ELSE "powder_cost"]

\* processing_costs section: key -> price per kg ("powder_cost" is unresolved)
ProcessingTable == [k \in {"pill_cost"} |-> 1234]

\* packaging_costs section: package type -> unit price
PackagingTables ==
  { [k \in S |-> IF k = "stick" THEN 30 ELSE 500] : S \in SUBSET {"stick", "box"} }

\* moq_rules section: either key may be absent
MoqTables ==
  { EmptyDict,
    [k \in {"default_moq_boxes", "min_production_kg"} |->
        IF k = "default_moq_boxes" THEN 2 ELSE 1],
    [k \in {"default_moq_boxes"} |-> 2],
    [k \in {"default_moq_boxes", "min_production_kg"} |-> 0] }

\* reference_products section: ingredient -> list of products, each with a
\* name and (optionally) a ratio mapping; "cellulose" has an empty list
ReferenceTable ==
  [n \in {"psyllium", "cellulose"} |->
     IF n = "psyllium"
     THEN << [name |-> "fiber stick",
              ratio |-> << [name |-> "psyllium", ratio10 |-> 700],
                           [name |-> "cellulose", ratio10 |-> 300] >>],
             [name |-> "fiber powder"] >>
     ELSE <<>>]

Catalogs ==
  [ ingredients : IngredientTables,
    reference_products : {ReferenceTable},
    processing_costs : {ProcessingTable},
    packaging_costs : PackagingTables,
    moq_rules : MoqTables,
    product_types : {ProductTypeTable} ]

ProductTypes == {"pill", "powder", "exotic"}
GramValues == {0, 5}
PouchValues == {0, 25, 75}
BoxValues == (0..MaxBoxes) \cup {100, 2000, 3000}
Ratio10Values == {250, 1000}
MainRatio10Values == 0..MaxMainRatio10
\* the optional main_ratio argument: None or a ratio
MainRatioArgs == {<<>>} \cup { <<m>> : m \in MainRatio10Values }

Distinct(s) == \A i, j \in 1..Len(s) : i # j => s[i].name # s[j].name

\* an ordered mapping name -> ratio, as a sequence of entries with distinct names
RatioMaps ==
  UNION { { s \in [1..n -> [name : IngredientNames, ratio10 : Ratio10Values]] :
              Distinct(s) } : n \in 0..MaxIngredients }

ProductSpecs ==
  [ product_type : ProductTypes,
    gram_per_pouch : GramValues,
    pouch_per_box : PouchValues,
    boxes : BoxValues,
    ingredient_ratios : RatioMaps ]

(* ---------------------------- ProductSpec ------------------------------ *)

total_pouches(s) == s.pouch_per_box * s.boxes

\* total_kg * 1000
total_g(s) == s.gram_per_pouch * s.pouch_per_box * s.boxes

(* ------------------------- IngredientService --------------------------- *)

\* Optional[...]: None is the empty sequence, a value v is <<v>>
NoneValue == <<>>

Some(v) == <<v>>

\* dict.get(key): None when the key is absent
GetOpt(d, k) == IF k \in DOMAIN d THEN Some(d[k]) ELSE NoneValue

get_price(name) == GetOpt(catalog.ingredients, name)

\* the "price" of the processing-cost entry of the type, or None
get_processing_cost(product_type) ==
  IF Has(catalog.product_types, product_type)
  THEN GetOpt(catalog.processing_costs, catalog.product_types[product_type])
  ELSE NoneValue

\* the "price" of the packaging entry, or None
get_packaging_cost(packaging_type) ==
  GetOpt(catalog.packaging_costs, packaging_type)

get_moq_rules == catalog.moq_rules

\* DEFAULT_EXCIPIENTS, in insertion order (ratios in percent); ASCII names:
\* "cellulose" = microcrystalline cellulose, "glucose" = refined glucose,
\* "silica" = silicon dioxide, "stearate" = magnesium stearate
DEFAULT_EXCIPIENTS ==
  << [name |-> "cellulose", ratio |-> 10],
     [name |-> "glucose", ratio |-> 8],
     [name |-> "silica", ratio |-> 1],
     [name |-> "stearate", ratio |-> 1] >>

\* sum(d.values()) of an ordered mapping name -> ratio10
RECURSIVE SumRatio10(_)
SumRatio10(d) ==
  IF d = <<>> THEN 0 ELSE d[1].ratio10 + SumRatio10(Tail(d))

\* total_default = sum(DEFAULT_EXCIPIENTS.values())
total_default ==
  LET RECURSIVE S(_)
      S(i) == IF i = 0 THEN 0 ELSE DEFAULT_EXCIPIENTS[i].ratio + S(i - 1)
  IN S(Len(DEFAULT_EXCIPIENTS))

\* the direction round() takes on a decimal tie, per default ratio: the float
\* nearest to x.x5 lies just above or just below it, so round(x, 1) of a
\* tie goes up or down with the binary representation of the operand
TieChoices == [{DEFAULT_EXCIPIENTS[i].ratio : i \in 1..Len(DEFAULT_EXCIPIENTS)} -> BOOLEAN]

\* round(num / den, 1) in tenths for num >= 0, den > 0, num / den being a
\* value in tenths; up is the direction of a tie
Round1(num, den, up) ==
  LET q == num \div den
      r == num % den
  IN IF 2 * r < den THEN q
     ELSE IF 2 * r > den THEN q + 1
     ELSE IF up THEN q + 1 ELSE q

\* scaled_ratio = round(default_ratio * scale, 1), scale = remaining / total_default
scaled_ratio(default_ratio, remaining10, up) ==
  Round1(default_ratio * remaining10, total_default, up[default_ratio])

\* the loop of recommend_excipients: the shares > 0, in insertion order
RECURSIVE scaled_shares(_, _, _)
scaled_shares(i, remaining10, up) ==
  IF i > Len(DEFAULT_EXCIPIENTS) THEN <<>>
  ELSE LET e == DEFAULT_EXCIPIENTS[i]
           v == scaled_ratio(e.ratio, remaining10, up)
           rest == scaled_shares(i + 1, remaining10, up)
       IN IF v > 0 THEN <<[name |-> e.name, ratio10 |-> v]>> \o rest ELSE rest

\* max(result, key=result.get): the first key holding the largest value
max_key(d) ==
  CHOOSE k \in 1..Len(d) :
    /\ \A j \in 1..Len(d) : d[j].ratio10 <= d[k].ratio10
    /\ \A j \in 1..(k - 1) : d[j].ratio10 < d[k].ratio10

\* the residual correction: diff is added to the largest share
correct_residual(d, remaining10) ==
  LET diff == remaining10 - SumRatio10(d)
  IN IF diff # 0 /\ d # <<>>
     THEN [d EXCEPT ![max_key(d)].ratio10 = @ + diff]
     ELSE d

\* recommend_excipients whose guard hands out the default table
recommend_excipients_defaults(main_ratio10, up) ==
  IF main_ratio10 >= 1000
  THEN [i \in 1..Len(DEFAULT_EXCIPIENTS) |->
          [name |-> DEFAULT_EXCIPIENTS[i].name,
           ratio10 |-> 10 * DEFAULT_EXCIPIENTS[i].ratio]]
  ELSE correct_residual(scaled_shares(1, 1000 - main_ratio10, up),
                        1000 - main_ratio10)

\* recommend_excipients(main_ratio), main_ratio = main_ratio10 / 10
recommend_excipients(main_ratio10, up) ==
  IF main_ratio10 >= 1000
  THEN <<>>
  ELSE correct_residual(scaled_shares(1, 1000 - main_ratio10, up),
                        1000 - main_ratio10)

\* cost = int(kg * price), kg = total_kg * (ratio / 100), that is
\* int(tg * ratio10 * price / 10^6).  The product is split at 10^6 so that no
\* intermediate value leaves the 32-bit range of the checker's integers:
\* with a = q * 10^6 + r, a * price / 10^6 = q * price + r * price / 10^6.
LineCost(tg, ratio10, price) ==
  LET a == tg * ratio10
  IN (a \div 1000000) * price + Trunc((a % 1000000) * price, 1000000)

\* IngredientStep that skips an unknown name without recording it
IngredientStep_unrecorded(acc, name, ratio10, tg) ==
  LET info == get_price(name)
  IN IF info = NoneValue
     THEN acc
     ELSE LET cost == LineCost(tg, ratio10, info[1])
          IN [acc EXCEPT
                !.details = Append(@, [name |-> name, ratio10 |-> ratio10,
                                       price_per_kg |-> info[1], cost |-> cost]),
                !.total_cost = @ + cost]

\* one iteration of the loop over ratios.items()
IngredientStep(acc, name, ratio10, tg) ==
  LET info == get_price(name)
  IN IF info = NoneValue
     THEN [acc EXCEPT !.missing_ingredients = Append(@, name)]
     ELSE LET cost == LineCost(tg, ratio10, info[1])
          IN [acc EXCEPT
                !.details = Append(@, [name |-> name, ratio10 |-> ratio10,
                                       price_per_kg |-> info[1], cost |-> cost]),
                !.total_cost = @ + cost]

RECURSIVE IngredientLoop(_, _, _, _)
IngredientLoop(ratios, tg, i, acc) ==
  IF i > Len(ratios) THEN acc
  ELSE IngredientLoop(ratios, tg, i + 1,
                      IngredientStep(acc, ratios[i].name, ratios[i].ratio10, tg))

\* the fractions cut off the line costs of details[i..], in millionths
RECURSIVE CutOff(_, _, _)
CutOff(details, tg, i) ==
  IF i > Len(details) THEN 0
  ELSE ((((tg * details[i].ratio10) % 1000000) * details[i].price_per_kg) % 1000000)
       + CutOff(details, tg, i + 1)

\* calculate_ingredient_cost truncating the sum of the untruncated line costs
calculate_ingredient_cost_sumtrunc(ratios, tg) ==
  LET r == IngredientLoop(ratios, tg, 1,
             [details |-> <<>>, total_cost |-> 0, missing_ingredients |-> <<>>])
  IN [r EXCEPT !.total_cost = @ + (CutOff(r.details, tg, 1) \div 1000000)]

calculate_ingredient_cost(ratios, tg) ==
  IngredientLoop(ratios, tg, 1,
                 [details |-> <<>>, total_cost |-> 0, missing_ingredients |-> <<>>])

(* --------------------------- QuoteCalculator --------------------------- *)

\* apply_moq with the box-count test written <= instead of <
apply_moq_le(s) ==
  LET moq_rules == get_moq_rules
      min_boxes == Get(moq_rules, "default_moq_boxes", DefaultMoqBoxes)
      min_kg == Get(moq_rules, "min_production_kg", DefaultMinKg)
      s1 == IF s.boxes <= min_boxes THEN [s EXCEPT !.boxes = min_boxes] ELSE s
      applied1 == s.boxes <= min_boxes
  IN IF total_g(s1) < min_kg * 1000
     THEN LET g_per_box == s1.gram_per_pouch * s1.pouch_per_box
          IN IF g_per_box = 0
             THEN [raised |-> TRUE, applied |-> applied1, spec |-> s1]
             ELSE LET required_boxes == Trunc(min_kg * 1000, g_per_box) + 1
                  IN [raised |-> FALSE, applied |-> TRUE,
                      spec |-> [s1 EXCEPT !.boxes = Max(s1.boxes, required_boxes)]]
     ELSE [raised |-> FALSE, applied |-> applied1, spec |-> s1]

\* apply_moq with the box-count floor raising to one box short of min_boxes
apply_moq_short(s) ==
  LET moq_rules == get_moq_rules
      min_boxes == Get(moq_rules, "default_moq_boxes", DefaultMoqBoxes)
      min_kg == Get(moq_rules, "min_production_kg", DefaultMinKg)
      s1 == IF s.boxes < min_boxes THEN [s EXCEPT !.boxes = min_boxes - 1] ELSE s
      applied1 == s.boxes < min_boxes
  IN IF total_g(s1) < min_kg * 1000
     THEN LET g_per_box == s1.gram_per_pouch * s1.pouch_per_box
          IN IF g_per_box = 0
             THEN [raised |-> TRUE, applied |-> applied1, spec |-> s1]
             ELSE LET required_boxes == Trunc(min_kg * 1000, g_per_box) + 1
                  IN [raised |-> FALSE, applied |-> TRUE,
                      spec |-> [s1 EXCEPT !.boxes = Max(s1.boxes, required_boxes)]]
     ELSE [raised |-> FALSE, applied |-> applied1, spec |-> s1]

\* apply_moq testing the mass floor only when the box-count floor did not fire
apply_moq_exclusive(s) ==
  LET moq_rules == get_moq_rules
      min_boxes == Get(moq_rules, "default_moq_boxes", DefaultMoqBoxes)
      min_kg == Get(moq_rules, "min_production_kg", DefaultMinKg)
      s1 == IF s.boxes < min_boxes THEN [s EXCEPT !.boxes = min_boxes] ELSE s
      applied1 == s.boxes < min_boxes
  IN IF ~applied1 /\ total_g(s1) < min_kg * 1000
     THEN LET g_per_box == s1.gram_per_pouch * s1.pouch_per_box
          IN IF g_per_box = 0
             THEN [raised |-> TRUE, applied |-> applied1, spec |-> s1]
             ELSE LET required_boxes == Trunc(min_kg * 1000, g_per_box) + 1
                  IN [raised |-> FALSE, applied |-> TRUE,
                      spec |-> [s1 EXCEPT !.boxes = Max(s1.boxes, required_boxes)]]
     ELSE [raised |-> FALSE, applied |-> applied1, spec |-> s1]

\* apply_moq whose mass floor leaves the applied flag as the box floor set it
apply_moq_flagless(s) ==
  LET moq_rules == get_moq_rules
      min_boxes == Get(moq_rules, "default_moq_boxes", DefaultMoqBoxes)
      min_kg == Get(moq_rules, "min_production_kg", DefaultMinKg)
      s1 == IF s.boxes < min_boxes THEN [s EXCEPT !.boxes = min_boxes] ELSE s
      applied1 == s.boxes < min_boxes
  IN IF total_g(s1) < min_kg * 1000
     THEN LET g_per_box == s1.gram_per_pouch * s1.pouch_per_box
          IN IF g_per_box = 0
             THEN [raised |-> TRUE, applied |-> applied1, spec |-> s1]
             ELSE LET required_boxes == Trunc(min_kg * 1000, g_per_box) + 1
                  IN [raised |-> FALSE, applied |-> applied1,
                      spec |-> [s1 EXCEPT !.boxes = Max(s1.boxes, required_boxes)]]
     ELSE [raised |-> FALSE, applied |-> applied1, spec |-> s1]

\* apply_moq with required_boxes = int(min_kg / kg_per_box), the + 1 left out
apply_moq_floor(s) ==
  LET moq_rules == get_moq_rules
      min_boxes == Get(moq_rules, "default_moq_boxes", DefaultMoqBoxes)
      min_kg == Get(moq_rules, "min_production_kg", DefaultMinKg)
      s1 == IF s.boxes < min_boxes THEN [s EXCEPT !.boxes = min_boxes] ELSE s
      applied1 == s.boxes < min_boxes
  IN IF total_g(s1) < min_kg * 1000
     THEN LET g_per_box == s1.gram_per_pouch * s1.pouch_per_box
          IN IF g_per_box = 0
             THEN [raised |-> TRUE, applied |-> applied1, spec |-> s1]
             ELSE LET required_boxes == Trunc(min_kg * 1000, g_per_box)
                  IN [raised |-> FALSE, applied |-> TRUE,
                      spec |-> [s1 EXCEPT !.boxes = Max(s1.boxes, required_boxes)]]
     ELSE [raised |-> FALSE, applied |-> applied1, spec |-> s1]

\* (applied, spec), or raised when the division by kg_per_box divides by zero
apply_moq(s) ==
  LET moq_rules == get_moq_rules
      min_boxes == Get(moq_rules, "default_moq_boxes", DefaultMoqBoxes)
      min_kg == Get(moq_rules, "min_production_kg", DefaultMinKg)
      s1 == IF s.boxes < min_boxes THEN [s EXCEPT !.boxes = min_boxes] ELSE s
      applied1 == s.boxes < min_boxes
  IN IF total_g(s1) < min_kg * 1000
     THEN LET g_per_box == s1.gram_per_pouch * s1.pouch_per_box
          IN IF g_per_box = 0
             THEN [raised |-> TRUE, applied |-> applied1, spec |-> s1]
             ELSE LET required_boxes == Trunc(min_kg * 1000, g_per_box) + 1
                  IN [raised |-> FALSE, applied |-> TRUE,
                      spec |-> [s1 EXCEPT !.boxes = Max(s1.boxes, required_boxes)]]
     ELSE [raised |-> FALSE, applied |-> applied1, spec |-> s1]

\* calculate_packaging_cost charging the boxes only when the stick rate exists
calculate_packaging_cost_both(s) ==
  LET stick_info == get_packaging_cost("stick")
      stick_cost == IF stick_info # NoneValue THEN total_pouches(s) * stick_info[1] ELSE 0
      box_info == get_packaging_cost("box")
      box_cost == IF stick_info # NoneValue /\ box_info # NoneValue
                  THEN s.boxes * box_info[1] ELSE 0
  IN [stick_cost |-> stick_cost, box_cost |-> box_cost,
      total_cost |-> stick_cost + box_cost]

calculate_packaging_cost(s) ==
  LET stick_info == get_packaging_cost("stick")
      stick_cost == IF stick_info # NoneValue THEN total_pouches(s) * stick_info[1] ELSE 0
      box_info == get_packaging_cost("box")
      box_cost == IF box_info # NoneValue THEN s.boxes * box_info[1] ELSE 0
  IN [stick_cost |-> stick_cost, box_cost |-> box_cost,
      total_cost |-> stick_cost + box_cost]

\* calculate_processing_cost returning no warning for an unknown type
calculate_processing_cost_silent(s) ==
  LET processing_info == get_processing_cost(s.product_type)
  IN IF processing_info = NoneValue
     THEN [unit_price |-> 0, total_cost |-> 0, warning |-> <<>>]
     ELSE [unit_price |-> processing_info[1],
           total_cost |-> Trunc(total_g(s) * processing_info[1], 1000),
           warning |-> <<>>]

calculate_processing_cost(s) ==
  LET processing_info == get_processing_cost(s.product_type)
  IN IF processing_info = NoneValue
     THEN [unit_price |-> 0, total_cost |-> 0,
           warning |-> <<"unknown_type", s.product_type>>]
     ELSE [unit_price |-> processing_info[1],
           total_cost |-> Trunc(total_g(s) * processing_info[1], 1000),
           warning |-> <<>>]

\* no ProductSpec is bound
NoSpec ==
  [product_type |-> "", gram_per_pouch |-> 0, pouch_per_box |-> 0,
   boxes |-> 0, ingredient_ratios |-> <<>>]

NoResult ==
  [status |-> "none", product_spec |-> NoSpec, ingredient_cost |-> 0,
   packaging_cost |-> 0, processing_cost |-> 0, total_cost |-> 0,
   price_per_box |-> 0, moq_applied |-> FALSE, original_boxes |-> 0,
   ingredient_details |-> <<>>, missing_ingredients |-> <<>>,
   packaging_details |-> [stick_cost |-> 0, box_cost |-> 0, total_cost |-> 0],
   processing_details |-> [unit_price |-> 0, total_cost |-> 0, warning |-> <<>>],
   warnings |-> <<>>]

\* moq_warning with original_boxes read after the adjustment
moq_warning_late(applied, original_boxes, adjusted_boxes) ==
  IF applied THEN << <<"moq", adjusted_boxes, adjusted_boxes>> >> ELSE <<>>

\* warnings after step 1: the MOQ warning "original -> adjusted"
moq_warning(applied, original_boxes, adjusted_boxes) ==
  IF applied THEN << <<"moq", original_boxes, adjusted_boxes>> >> ELSE <<>>

\* missing_warning appending one warning per missing ingredient
missing_warning_each(warnings, missing_ingredients) ==
  warnings \o [i \in 1..Len(missing_ingredients) |->
                <<"missing", <<missing_ingredients[i]>> >>]

\* warnings after step 2: the missing-ingredient warning
missing_warning(warnings, missing_ingredients) ==
  IF missing_ingredients # <<>>
  THEN Append(warnings, <<"missing", missing_ingredients>>)
  ELSE warnings

\* warnings after step 4: the warning of the processing result, if any
processing_warning(warnings, processing_result) ==
  IF processing_result.warning # <<>>
  THEN Append(warnings, processing_result.warning)
  ELSE warnings

\* quote_total leaving the packaging cost out of the sum
quote_total_nopack(ingredient_cost, packaging_cost, processing_cost) ==
  ingredient_cost + processing_cost

quote_total(ingredient_cost, packaging_cost, processing_cost) ==
  ingredient_cost + packaging_cost + processing_cost

\* price_per_box rounding the quotient up instead of truncating it
price_per_box_ceil(total_cost, boxes) ==
  IF boxes > 0 THEN (total_cost + boxes - 1) \div boxes ELSE 0

\* int(total_cost / boxes) if boxes > 0 else 0
price_per_box(total_cost, boxes) ==
  IF boxes > 0 THEN Trunc(total_cost, boxes) ELSE 0

calculate(s) ==
  LET original_boxes == s.boxes
      moq == apply_moq(s)
  IN IF moq.raised
     THEN [NoResult EXCEPT !.status = "raised"]
     ELSE
       LET s2 == moq.spec
           w1 == moq_warning(moq.applied, original_boxes, s2.boxes)
           ingredient_result == calculate_ingredient_cost(s2.ingredient_ratios, total_g(s2))
           w2 == missing_warning(w1, ingredient_result.missing_ingredients)
           packaging_result == calculate_packaging_cost(s2)
           processing_result == calculate_processing_cost(s2)
           w3 == processing_warning(w2, processing_result)
           total_cost == quote_total(ingredient_result.total_cost,
                                     packaging_result.total_cost,
                                     processing_result.total_cost)
       IN [status |-> "returned",
           product_spec |-> s2,
           ingredient_cost |-> ingredient_result.total_cost,
           packaging_cost |-> packaging_result.total_cost,
           processing_cost |-> processing_result.total_cost,
           total_cost |-> total_cost,
           price_per_box |-> price_per_box(total_cost, s2.boxes),
           moq_applied |-> moq.applied,
           original_boxes |-> original_boxes,
           ingredient_details |-> ingredient_result.details,
           missing_ingredients |-> ingredient_result.missing_ingredients,
           packaging_details |-> packaging_result,
           processing_details |-> processing_result,
           warnings |-> w3]

\* calculate whose MOQ lookup is moq_rules.setdefault(key, default): the
\* defaults are written into the section that get_moq_rules hands out
catalog_after_calculate_setdefault(s) ==
  [catalog EXCEPT !.moq_rules =
     [k \in {"default_moq_boxes", "min_production_kg"} |->
        IF k \in DOMAIN catalog.moq_rules THEN catalog.moq_rules[k]
        ELSE IF k = "default_moq_boxes" THEN DefaultMoqBoxes ELSE DefaultMinKg]]

\* the catalog as calculate(s) leaves it: the sections are read through
\* .get() and indexing, the adjusted spec is a new ProductSpec, and no
\* statement of calculate or of the accessors it calls assigns into a section
catalog_after_calculate(s) == catalog

(* ---------------------------- search providers ------------------------- *)

\* SearchManager.PROVIDERS: the registered provider names
SearchProviders == {"DDGS", "Brave", "Tavily", "Google"}

FALLBACK_ORDER == <<"DDGS", "Brave", "Tavily", "Google">>

\* what the external call of a provider does during one search: it answers
\* with entries, answers with none, or fails (network error, HTTP error
\* status, malformed response)
Outcomes == {"results", "empty", "error"}

\* provider_name arguments: "" stands for None (both are falsy), "Bing" is
\* not registered
ProviderArgs == {""} \cup SearchProviders \cup {"Bing"}

\* a provider's search whose except clause is missing: the failure leaves it
provider_search_uncaught(name, available, outcome) ==
  IF ~available THEN [raised |-> FALSE, results |-> <<>>]
  ELSE IF outcome = "error" THEN [raised |-> TRUE, results |-> <<>>]
  ELSE IF outcome = "results"
       THEN [raised |-> FALSE, results |-> <<[source |-> name]>>]
       ELSE [raised |-> FALSE, results |-> <<>>]

\* <Provider>.search(query, max_results): [] when unavailable, [] from the
\* except clause when the external call fails, else the entries of the answer
provider_search(name, available, outcome) ==
  IF ~available THEN [raised |-> FALSE, results |-> <<>>]
  ELSE IF outcome = "error" THEN [raised |-> FALSE, results |-> <<>>]
  ELSE IF outcome = "results"
       THEN [raised |-> FALSE, results |-> <<[source |-> name]>>]
       ELSE [raised |-> FALSE, results |-> <<>>]

\* the outcome of SearchManager.search; invoked lists, in call order, the
\* providers whose search method was run
SearchReturn(results, used, invoked) ==
  [status |-> "returned", results |-> results, used |-> used, invoked |-> invoked]

SearchRaise(invoked) ==
  [status |-> "raised", results |-> <<>>, used |-> "", invoked |-> invoked]

\* the fallback loop that stops at the end of the order only
RECURSIVE fallback_loop_nobreak(_, _, _, _, _)
fallback_loop_nobreak(i, available, provider_name, outcome, invoked) ==
  IF i > Len(FALLBACK_ORDER) THEN SearchReturn(<<>>, "", invoked)
  ELSE LET name == FALLBACK_ORDER[i]
       IN IF provider_name # "" /\ name = provider_name
          THEN fallback_loop_nobreak(i + 1, available, provider_name, outcome, invoked)
          ELSE IF name \in DOMAIN available /\ available[name]
          THEN LET r == provider_search(name, available[name], outcome[name])
                   rest == fallback_loop_nobreak(i + 1, available, provider_name,
                                                 outcome, Append(invoked, name))
               IN IF r.raised THEN SearchRaise(Append(invoked, name))
                  ELSE IF r.results # <<>> /\ rest.results = <<>>
                  THEN SearchReturn(r.results, name, rest.invoked)
                  ELSE rest
          ELSE fallback_loop_nobreak(i + 1, available, provider_name, outcome, invoked)

\* the fallback loop that does not skip the provider already tried
RECURSIVE fallback_loop_noskip(_, _, _, _, _)
fallback_loop_noskip(i, available, provider_name, outcome, invoked) ==
  IF i > Len(FALLBACK_ORDER) THEN SearchReturn(<<>>, "", invoked)
  ELSE LET name == FALLBACK_ORDER[i]
       IN IF name \in DOMAIN available /\ available[name]
          THEN LET r == provider_search(name, available[name], outcome[name])
               IN IF r.raised THEN SearchRaise(Append(invoked, name))
                  ELSE IF r.results # <<>>
                  THEN SearchReturn(r.results, name, Append(invoked, name))
                  ELSE fallback_loop_noskip(i + 1, available, provider_name,
                                            outcome, Append(invoked, name))
          ELSE fallback_loop_noskip(i + 1, available, provider_name, outcome, invoked)

\* the loop over FALLBACK_ORDER (search.py:275-283), from position i on
RECURSIVE fallback_loop(_, _, _, _, _)
fallback_loop(i, available, provider_name, outcome, invoked) ==
  IF i > Len(FALLBACK_ORDER) THEN SearchReturn(<<>>, "", invoked)
  ELSE LET name == FALLBACK_ORDER[i]
       IN IF provider_name # "" /\ name = provider_name
          THEN fallback_loop(i + 1, available, provider_name, outcome, invoked)
          ELSE IF name \in DOMAIN available /\ available[name]
          THEN LET r == provider_search(name, available[name], outcome[name])
               IN IF r.raised THEN SearchRaise(Append(invoked, name))
                  ELSE IF r.results # <<>>
                  THEN SearchReturn(r.results, name, Append(invoked, name))
                  ELSE fallback_loop(i + 1, available, provider_name, outcome,
                                     Append(invoked, name))
          ELSE fallback_loop(i + 1, available, provider_name, outcome, invoked)

\* SearchManager.search whose named provider is asked only when fallback is off
search_primary_if_exclusive(available, provider_name, use_fallback, outcome) ==
  IF provider_name # "" /\ ~use_fallback
  THEN IF provider_name \in DOMAIN available
       THEN IF available[provider_name]
            THEN LET r == provider_search(provider_name, available[provider_name],
                                          outcome[provider_name])
                 IN IF r.raised THEN SearchRaise(<<provider_name>>)
                    ELSE SearchReturn(r.results, provider_name, <<provider_name>>)
            ELSE fallback_loop(1, available, provider_name, outcome, <<>>)
       ELSE SearchReturn(<<>>, "", <<>>)
  ELSE fallback_loop(1, available, "", outcome, <<>>)

\* SearchManager.search(query, provider_name, max_results, use_fallback);
\* available maps each registered provider to its is_available()
search(available, provider_name, use_fallback, outcome) ==
  IF provider_name # ""
  THEN IF provider_name \in DOMAIN available
       THEN IF available[provider_name]
            THEN LET r == provider_search(provider_name, available[provider_name],
                                          outcome[provider_name])
                 IN IF r.raised THEN SearchRaise(<<provider_name>>)
                    ELSE IF r.results # <<>>
                    THEN SearchReturn(r.results, provider_name, <<provider_name>>)
                    ELSE IF ~use_fallback
                    THEN SearchReturn(<<>>, provider_name, <<provider_name>>)
                    ELSE fallback_loop(1, available, provider_name, outcome,
                                       <<provider_name>>)
            ELSE fallback_loop(1, available, provider_name, outcome, <<>>)
       ELSE IF ~use_fallback
       THEN SearchReturn(<<>>, "", <<>>)
       ELSE fallback_loop(1, available, provider_name, outcome, <<>>)
  ELSE fallback_loop(1, available, provider_name, outcome, <<>>)

(* ----------------------------- LLM providers --------------------------- *)

\* LLMManager.PROVIDERS with each provider's model_id
LLMModelIds ==
  [n \in {"Gemini 2.0 Flash", "GPT-5-nano", "GPT-5-mini", "GPT-4o-mini"} |->
     CASE n = "Gemini 2.0 Flash" -> "gemini-2.0-flash"
       [] n = "GPT-5-nano" -> "gpt-5-nano"
       [] n = "GPT-5-mini" -> "gpt-5-mini"
       [] n = "GPT-4o-mini" -> "gpt-4o-mini"]

LLMProviders == DOMAIN LLMModelIds

\* provider_name arguments: "Llama" is not registered
LLMProviderArgs == LLMProviders \cup {"Llama"}

\* what the vendor API does during one generate: it answers with a text and
\* token counts, or the call fails
LLMOutcomes ==
  [kind : {"ok"}, input_tokens : {12, 1000}, output_tokens : {0, 7}]
    \cup {[kind |-> "error", input_tokens |-> 0, output_tokens |-> 0]}

\* a text is a tuple: <<>> is the empty string, <<"text">> a generated answer,
\* <<"unknown_provider", n>> and <<"no_api_key", n>> the two messages of
\* LLMManager.generate naming provider n
LLMResponse(content, model, input_tokens, output_tokens, total_tokens) ==
  [content |-> content, model |-> model, input_tokens |-> input_tokens,
   output_tokens |-> output_tokens, total_tokens |-> total_tokens]

\* the pricing table of estimated_cost: model id -> rates in USD per million
\* tokens, held in hundredths (0.10 is 10, 2.00 is 200)
pricing ==
  [m \in {"gemini-2.0-flash", "gpt-5-nano", "gpt-5-mini", "gpt-4o-mini"} |->
     CASE m = "gemini-2.0-flash" -> [input |-> 10, output |-> 40]
       [] m = "gpt-5-nano" -> [input |-> 5, output |-> 40]
       [] m = "gpt-5-mini" -> [input |-> 25, output |-> 200]
       [] m = "gpt-4o-mini" -> [input |-> 15, output |-> 60]]

\* estimated_cost with the two rates of the model exchanged
estimated_cost_swapped(response) ==
  IF response.model \in DOMAIN pricing
  THEN LET p == pricing[response.model]
       IN response.input_tokens * p.output + response.output_tokens * p.input
  ELSE 0

\* LLMResponse.estimated_cost in units of 10^-8 USD: with the rates in
\* hundredths, (in * rate_in + out * rate_out) / 1_000_000 USD is
\* (in * rate_in + out * rate_out) units
estimated_cost(response) ==
  IF response.model \in DOMAIN pricing
  THEN LET p == pricing[response.model]
       IN response.input_tokens * p.input + response.output_tokens * p.output
  ELSE 0

\* <Provider>.generate(...): an empty response when unavailable or when the
\* vendor call fails, else the answer with its token counts
provider_generate(name, available, outcome) ==
  IF ~available \/ outcome.kind = "error"
  THEN LLMResponse(<<>>, LLMModelIds[name], 0, 0, 0)
  ELSE LLMResponse(<<"text">>, LLMModelIds[name], outcome.input_tokens,
                   outcome.output_tokens,
                   outcome.input_tokens + outcome.output_tokens)

\* LLMManager.generate(prompt, provider_name, ...)
generate(available, provider_name, outcome) ==
  IF provider_name \notin DOMAIN available
  THEN LLMResponse(<<"unknown_provider", provider_name>>, "", 0, 0, 0)
  ELSE IF ~available[provider_name]
  THEN LLMResponse(<<"no_api_key", provider_name>>, LLMModelIds[provider_name],
                   0, 0, 0)
  ELSE provider_generate(provider_name, available[provider_name], outcome)

(* -------------------------- ReferenceService --------------------------- *)

DefaultMainRatio == 80

get_reference_products(ingredient_name) ==
  Get(catalog.reference_products, ingredient_name, <<>>)

\* the ReferenceProduct list of the catalog's references, ratio defaulting to {}
get_db_references(ingredient_name) ==
  LET db_refs == get_reference_products(ingredient_name)
  IN [i \in 1..Len(db_refs) |->
        [name |-> db_refs[i].name,
         source |-> "db",
         ratio |-> Get(db_refs[i], "ratio", <<>>)]]

\* the catalog as get_db_references(ingredient_name) leaves it: each product
\* is read with ref["name"] and ref.get("ratio", {}), nothing is stored
catalog_after_get_db_references(ingredient_name) == catalog

\* d[name] = ratio10 on an ordered mapping: an existing key keeps its place
\* and takes the new value, a new key goes to the end
dict_set(d, name, ratio10) ==
  IF \E i \in 1..Len(d) : d[i].name = name
  THEN [i \in 1..Len(d) |->
          IF d[i].name = name THEN [name |-> name, ratio10 |-> ratio10] ELSE d[i]]
  ELSE Append(d, [name |-> name, ratio10 |-> ratio10])

\* {**d, **e}
RECURSIVE dict_merge(_, _)
dict_merge(d, e) ==
  IF e = <<>> THEN d
  ELSE dict_merge(dict_set(d, e[1].name, e[1].ratio10), Tail(e))

\* suggest_ratio(ingredient_name, main_ratio); main_ratio is None or <<ratio10>>
suggest_ratio(ingredient_name, main_ratio, up) ==
  LET db_refs == get_db_references(ingredient_name)
  IN IF main_ratio # NoneValue
     THEN dict_merge(<<[name |-> ingredient_name, ratio10 |-> main_ratio[1]]>>,
                     recommend_excipients(main_ratio[1], up))
     ELSE IF db_refs # <<>>
     THEN db_refs[1].ratio
     ELSE dict_merge(<<[name |-> ingredient_name,
                        ratio10 |-> 10 * DefaultMainRatio]>>,
                     recommend_excipients(10 * DefaultMainRatio, up))

(* ----------------------------- state machine --------------------------- *)

\* no ratio has been asked for
NoSuggestion ==
  [op |-> "none", ingredient_name |-> "", main_ratio |-> NoneValue,
   ratio |-> <<>>, references |-> <<>>]

\* no search is being served
NoSearch ==
  [status |-> "none", provider_name |-> "", use_fallback |-> FALSE,
   outcome |-> <<>>, results |-> <<>>, used |-> "", invoked |-> <<>>]

\* no generation is being served
NoGeneration ==
  [status |-> "none", provider_name |-> "", outcome |-> <<>>,
   response |-> LLMResponse(<<>>, "", 0, 0, 0), cost |-> 0]

\* the catalog is loaded once, at construction; no request is being served;
\* the manager singletons _search_manager and _llm_manager are None
Init ==
  /\ catalog \in Catalogs
  /\ spec = NoSpec
  /\ result = NoResult
  /\ suggestion = NoSuggestion
  /\ search_manager = NoneValue
  /\ search_call = NoSearch
  /\ llm_manager = NoneValue
  /\ llm_call = NoGeneration

\* a request handler builds a ProductSpec s and runs calc.calculate(s)
Calculate ==
  /\ result.status = "none"
  /\ \E s \in ProductSpecs :
       /\ spec' = s
       /\ result' = calculate(s)
       /\ catalog' = catalog_after_calculate(s)
  /\ UNCHANGED <<suggestion, search_manager, search_call,
                 llm_manager, llm_call>>

\* the handler returns (or the exception leaves it): its locals are dropped
EndRequest ==
  /\ result.status # "none"
  /\ spec' = NoSpec
  /\ result' = NoResult
  /\ UNCHANGED <<catalog, suggestion, search_manager, search_call,
                 llm_manager, llm_call>>

Next == Calculate \/ EndRequest

Spec == Init /\ [][Next]_vars

\* the ratio services read the reference_products section only: the sections
\* they never touch are held at one loaded value each
InitRatio ==
  /\ Init
  /\ catalog.moq_rules = EmptyDict
  /\ DOMAIN catalog.packaging_costs = {"stick", "box"}

\* the quick-quote form runs ingredient_svc.recommend_excipients(main_ratio)
RecommendExcipients ==
  /\ suggestion.op = "none"
  /\ \E m \in MainRatio10Values, up \in TieChoices :
       suggestion' = [op |-> "recommend_excipients",
                      ingredient_name |-> "",
                      main_ratio |-> Some(m),
                      ratio |-> recommend_excipients(m, up),
                      references |-> <<>>]
  /\ UNCHANGED <<catalog, spec, result, search_manager, search_call,
                 llm_manager, llm_call>>

\* a handler runs ref_svc.suggest_ratio(ingredient, main_ratio)
SuggestRatio ==
  /\ suggestion.op = "none"
  /\ \E n \in IngredientNames, mr \in MainRatioArgs, up \in TieChoices :
       /\ suggestion' = [op |-> "suggest_ratio",
                         ingredient_name |-> n,
                         main_ratio |-> mr,
                         ratio |-> suggest_ratio(n, mr, up),
                         references |-> <<>>]
       /\ catalog' = catalog_after_get_db_references(n)
  /\ UNCHANGED <<spec, result, search_manager, search_call,
                 llm_manager, llm_call>>

\* the handler has used the mapping and returns
EndSuggestion ==
  /\ suggestion.op # "none"
  /\ suggestion' = NoSuggestion
  /\ UNCHANGED <<catalog, spec, result, search_manager, search_call,
                 llm_manager, llm_call>>

NextRatio == RecommendExcipients \/ SuggestRatio \/ EndSuggestion

SpecRatio == InitRatio /\ [][NextRatio]_vars

\* a handler lists the reference products: ref_svc.get_db_references(ingredient)
GetDbReferences ==
  /\ suggestion.op = "none"
  /\ \E n \in IngredientNames :
       /\ suggestion' = [op |-> "get_db_references",
                         ingredient_name |-> n,
                         main_ratio |-> NoneValue,
                         ratio |-> <<>>,
                         references |-> get_db_references(n)]
       /\ catalog' = catalog_after_get_db_references(n)
  /\ UNCHANGED <<spec, result, search_manager, search_call,
                 llm_manager, llm_call>>

\* one request is served at a time (single-threaded handlers): a quote is
\* started only while no ratio call is open, and the other way round
QuoteRequest == suggestion.op = "none" /\ Calculate

RecommendRequest == result.status = "none" /\ RecommendExcipients

SuggestRequest == result.status = "none" /\ SuggestRatio

ReferencesRequest == result.status = "none" /\ GetDbReferences

NextCatalog ==
  \/ QuoteRequest
  \/ EndRequest
  \/ RecommendRequest
  \/ SuggestRequest
  \/ ReferencesRequest
  \/ EndSuggestion

\* any sequence of quotes, excipient recommendations, ratio suggestions and
\* reference listings over one loaded catalog
SpecCatalog == Init /\ [][NextCatalog]_vars

\* the providers never read the catalog: it is held at one loaded value
InitProviders ==
  /\ InitRatio
  /\ DOMAIN catalog.ingredients = {"psyllium", "cellulose"}

\* get_search_manager(): the first call constructs the singleton; each
\* provider reads its credentials (DDGS: its package) once, at construction
GetSearchManager ==
  /\ search_manager = NoneValue
  /\ \E available \in [SearchProviders -> BOOLEAN] :
       search_manager' = Some(available)
  /\ UNCHANGED <<catalog, spec, result, suggestion, search_call,
                 llm_manager, llm_call>>

\* a handler runs search_manager.search(query, provider_name, max_results,
\* use_fallback); outcome is what each external call would do
Search ==
  /\ search_manager # NoneValue
  /\ search_call.status = "none"
  /\ \E pn \in ProviderArgs, fb \in BOOLEAN, o \in [SearchProviders -> Outcomes] :
       LET r == search(search_manager[1], pn, fb, o)
       IN search_call' = [status |-> r.status, provider_name |-> pn,
                          use_fallback |-> fb, outcome |-> o,
                          results |-> r.results, used |-> r.used,
                          invoked |-> r.invoked]
  /\ UNCHANGED <<catalog, spec, result, suggestion, search_manager,
                 llm_manager, llm_call>>

\* the handler has used the results and returns
EndSearch ==
  /\ search_call.status # "none"
  /\ search_call' = NoSearch
  /\ UNCHANGED <<catalog, spec, result, suggestion, search_manager,
                 llm_manager, llm_call>>

NextSearch == GetSearchManager \/ Search \/ EndSearch

SpecSearch == InitProviders /\ [][NextSearch]_vars

\* get_llm_manager(): the first call constructs the singleton
GetLLMManager ==
  /\ llm_manager = NoneValue
  /\ \E available \in [LLMProviders -> BOOLEAN] :
       llm_manager' = Some(available)
  /\ UNCHANGED <<catalog, spec, result, suggestion, search_manager,
                 search_call, llm_call>>

\* a handler runs llm_manager.generate(prompt, provider_name, ...) and puts
\* response.estimated_cost into its metrics
Generate ==
  /\ llm_manager # NoneValue
  /\ llm_call.status = "none"
  /\ \E pn \in LLMProviderArgs, o \in LLMOutcomes :
       LET response == generate(llm_manager[1], pn, o)
       IN llm_call' = [status |-> "returned", provider_name |-> pn, outcome |-> o,
                       response |-> response, cost |-> estimated_cost(response)]
  /\ UNCHANGED <<catalog, spec, result, suggestion, search_manager,
                 search_call, llm_manager>>

\* the handler has used the response and returns
EndGeneration ==
  /\ llm_call.status # "none"
  /\ llm_call' = NoGeneration
  /\ UNCHANGED <<catalog, spec, result, suggestion, search_manager,
                 search_call, llm_manager>>

NextLLM == GetLLMManager \/ Generate \/ EndGeneration

SpecLLM == InitProviders /\ [][NextLLM]_vars

(* ------------------------------- claims -------------------------------- *)

Returned == result.status = "returned"

Raised == result.status = "raised"

\* the MOQ thresholds in force, in boxes and in grams
MinBoxes == IF "default_moq_boxes" \in DOMAIN catalog.moq_rules
            THEN catalog.moq_rules["default_moq_boxes"] ELSE 2000

MinG == 1000 * (IF "min_production_kg" \in DOMAIN catalog.moq_rules
                THEN catalog.moq_rules["min_production_kg"] ELSE 300)

\* grams per box of the requested spec
GPerBox == spec.gram_per_pouch * spec.pouch_per_box

\* the box-count floor fires on the requested spec
BoxFloorFires == spec.boxes < MinBoxes

\* box count after the box-count floor
FlooredBoxes == IF spec.boxes < MinBoxes THEN MinBoxes ELSE spec.boxes

\* the mass floor fires on the spec left by the box-count floor
MassFloorFires == GPerBox * FlooredBoxes < MinG

MoqWarnings == { i \in 1..Len(result.warnings) : result.warnings[i][1] = "moq" }

\* C1: a spec with boxes >= min_boxes and total mass >= min_kg comes back with
\* the same box count, moq_applied = false and no MOQ warning.
C1_NoAdjustment ==
  (result.status # "none" /\ spec.boxes >= MinBoxes /\ GPerBox * spec.boxes >= MinG)
    => /\ Returned
       /\ result.product_spec.boxes = spec.boxes
       /\ result.moq_applied = FALSE
       /\ MoqWarnings = {}

\* 5 g x 75 pouches x 3000 boxes under the default rules (2000 boxes, 300 kg)
C1_Witness ==
  /\ Returned
  /\ catalog.moq_rules = EmptyDict
  /\ spec.gram_per_pouch = 5 /\ spec.pouch_per_box = 75 /\ spec.boxes = 3000
  /\ result.product_spec.boxes = 3000 /\ ~result.moq_applied

\* C2: a spec with boxes < min_boxes whose mass at min_boxes reaches min_kg
\* comes back with exactly min_boxes boxes and moq_applied = true.
C2_BoxFloor ==
  (result.status # "none" /\ spec.boxes < MinBoxes /\ GPerBox * MinBoxes >= MinG)
    => /\ Returned
       /\ result.product_spec.boxes = MinBoxes
       /\ result.moq_applied = TRUE

\* the example of the spec: 100 boxes become 2000
C2_Witness ==
  /\ Returned
  /\ catalog.moq_rules = EmptyDict
  /\ spec.boxes = 100 /\ GPerBox = 375
  /\ result.product_spec.boxes = 2000 /\ result.moq_applied

\* ceil(a / b) for a >= 0, b > 0: the smallest n with n * b >= a
CeilDiv(a, b) == (a + b - 1) \div b

\* C3: when the mass is still below min_kg after the box-count floor, the
\* returned box count is max(current box count, N), N the smallest box count
\* whose mass reaches min_kg.
C3_MassFloorIsMinimal ==
  (Returned /\ MassFloorFires)
    => result.product_spec.boxes =
         (IF FlooredBoxes >= CeilDiv(MinG, GPerBox)
          THEN FlooredBoxes ELSE CeilDiv(MinG, GPerBox))

\* C4: calculate returns a result for every ProductSpec; it never raises.
C4_NeverRaises == ~Raised

\* C5: total_cost = ingredient_cost + packaging_cost + processing_cost in every
\* QuoteResult that calculate returns.
C5_TotalIsSum ==
  Returned =>
    result.total_cost =
      result.ingredient_cost + result.packaging_cost + result.processing_cost

\* all three components are charged, after a MOQ adjustment, with a name missing
C5_Witness ==
  /\ Returned
  /\ result.moq_applied
  /\ result.missing_ingredients # <<>>
  /\ result.ingredient_cost > 0
  /\ result.packaging_cost > 0
  /\ result.processing_cost > 0

\* C6: the MOQ warning is recorded exactly when the box-count floor or the
\* mass floor fired, and it states the requested and the final box count.
C6_MoqWarning ==
  Returned =>
    /\ (MoqWarnings # {}) <=> (BoxFloorFires \/ MassFloorFires)
    /\ \A i \in MoqWarnings :
         result.warnings[i] = <<"moq", spec.boxes, result.product_spec.boxes>>

\* both floors fire in sequence: 1 box becomes 2 (box floor), then 3 (1 kg of
\* 375 g boxes)
C6_Witness ==
  /\ Returned
  /\ BoxFloorFires /\ MassFloorFires
  /\ spec.boxes = 1
  /\ FlooredBoxes = 2
  /\ result.product_spec.boxes = 3
  /\ result.warnings[1] = <<"moq", 1, 3>>

\* positions of the ratios whose name the catalog does not hold
UnknownIdx ==
  { i \in 1..Len(spec.ingredient_ratios) :
      spec.ingredient_ratios[i].name \notin DOMAIN catalog.ingredients }

KnownIdx == (1..Len(spec.ingredient_ratios)) \ UnknownIdx

\* the requested spec without the i-th ratio
WithoutRatio(i) ==
  [spec EXCEPT !.ingredient_ratios =
     SubSeq(@, 1, i - 1) \o SubSeq(@, i + 1, Len(@))]

InSeq(x, q) == \E k \in 1..Len(q) : q[k] = x

\* C7: an ingredient name absent from the catalog is skipped: the quote is the
\* one computed without it (same outcome, same line items, same costs), the
\* name is in missing_ingredients and a missing-ingredient warning names it.
C7_UnknownSkipped ==
  result.status # "none" =>
    \A i \in UnknownIdx :
      LET name == spec.ingredient_ratios[i].name
          other == calculate(WithoutRatio(i))
      IN /\ result.status = other.status
         /\ Returned =>
              /\ InSeq(name, result.missing_ingredients)
              /\ \A k \in 1..Len(result.ingredient_details) :
                    result.ingredient_details[k].name # name
              /\ result.ingredient_details = other.ingredient_details
              /\ result.ingredient_cost = other.ingredient_cost
              /\ result.total_cost = other.total_cost
              /\ \E w \in 1..Len(result.warnings) :
                    /\ result.warnings[w][1] = "missing"
                    /\ InSeq(name, result.warnings[w][2])

\* a known ingredient is charged next to an unknown one
C7_Witness ==
  /\ Returned
  /\ Len(spec.ingredient_ratios) = 2
  /\ spec.ingredient_ratios[1].name = "unobtainium"
  /\ spec.ingredient_ratios[2].name = "psyllium"
  /\ result.missing_ingredients = <<"unobtainium">>
  /\ result.ingredient_cost > 0

\* mass of the returned (MOQ-adjusted) spec, in grams
AdjG ==
  result.product_spec.gram_per_pouch * result.product_spec.pouch_per_box
    * result.product_spec.boxes

\* floor(AdjG x ratio/100 x price / 1000) of the i-th ratio, the product split
\* at 1000: floor(floor(a * p / 1000) / 1000) with a = AdjG * ratio10
ExactLine(i) ==
  LET a == AdjG * spec.ingredient_ratios[i].ratio10
      p == catalog.ingredients[spec.ingredient_ratios[i].name]
  IN ((a \div 1000) * p + ((a % 1000) * p) \div 1000) \div 1000

\* the part of the i-th line cost that truncation drops, in millionths
DroppedLine(i) ==
  LET a == AdjG * spec.ingredient_ratios[i].ratio10
      p == catalog.ingredients[spec.ingredient_ratios[i].name]
  IN (((a % 1000000) * p) % 1000000)

RECURSIVE SumExact(_)
SumExact(S) ==
  IF S = {} THEN 0
  ELSE LET i == CHOOSE j \in S : TRUE IN ExactLine(i) + SumExact(S \ {i})

RECURSIVE SumDropped(_)
SumDropped(S) ==
  IF S = {} THEN 0
  ELSE LET i == CHOOSE j \in S : TRUE IN DroppedLine(i) + SumDropped(S \ {i})

TypeHasEntry ==
  /\ spec.product_type \in DOMAIN catalog.product_types
  /\ catalog.product_types[spec.product_type] \in DOMAIN catalog.processing_costs

TypeWarnings ==
  { i \in 1..Len(result.warnings) : result.warnings[i][1] = "unknown_type" }

RateOf(k) ==
  IF k \in DOMAIN catalog.packaging_costs THEN catalog.packaging_costs[k] ELSE 0

\* C10: packaging cost = per-unit rate x total units + per-box rate x boxes on
\* the MOQ-adjusted spec, an absent rate counting 0; an absent rate is never
\* the cause of an error (calculate raises only on a zero per-box mass).
C10_PackagingCost ==
  /\ Returned =>
       result.packaging_cost =
         RateOf("stick") * result.product_spec.pouch_per_box * result.product_spec.boxes
           + RateOf("box") * result.product_spec.boxes
  /\ Raised => GPerBox = 0

\* only the per-box rate exists and is charged on the adjusted box count
C10_Witness ==
  /\ Returned
  /\ result.moq_applied
  /\ DOMAIN catalog.packaging_costs = {"box"}
  /\ result.packaging_cost = 500 * result.product_spec.boxes
  /\ result.packaging_cost > 500 * spec.boxes

PackagingWarnings ==
  { i \in 1..Len(result.warnings) :
      result.warnings[i][1] \notin {"moq", "missing", "unknown_type"} }

\* C11: when the per-unit or the per-box packaging rate is absent from the
\* catalog, the returned quote carries a warning about the packaging, as it
\* does for an unknown ingredient and an unknown product type.
C11_PackagingWarning ==
  (Returned /\ DOMAIN catalog.packaging_costs # {"stick", "box"})
    => PackagingWarnings # {}

\* C12: price_per_box is total_cost divided by the returned box count and
\* truncated: price_per_box x boxes <= total_cost < (price_per_box + 1) x boxes;
\* with a returned box count of zero the price is 0 and the call returns.
C12_PricePerBox ==
  /\ Returned =>
       IF result.product_spec.boxes = 0
       THEN result.price_per_box = 0
       ELSE /\ result.price_per_box * result.product_spec.boxes <= result.total_cost
            /\ result.total_cost <
                 (result.price_per_box + 1) * result.product_spec.boxes
  /\ (result.status # "none" /\ spec.boxes = 0 /\ MinBoxes = 0 /\ MinG = 0)
       => (Returned /\ result.product_spec.boxes = 0)

\* a total that the box count does not divide is quoted with the remainder cut
C12_Witness ==
  /\ Returned
  /\ result.product_spec.boxes > 1
  /\ result.price_per_box > 0
  /\ result.total_cost % result.product_spec.boxes # 0

Recommended == suggestion.op = "recommend_excipients"

\* 100 - r in tenths, for the main ratio r of the call
Remaining10 == 1000 - suggestion.main_ratio[1]

\* |a - b|
Dist(a, b) == IF a >= b THEN a - b ELSE b - a

\* C13: for 0 <= r < 100 the values returned by recommend_excipients(r) sum to
\* 100 - r: within 0.1, and exactly (to one decimal) after the correction step.
C13_SumsToRemainder ==
  (Recommended /\ suggestion.main_ratio[1] < 1000) =>
    /\ Dist(SumRatio10(suggestion.ratio), Remaining10) <= 1
    /\ SumRatio10(suggestion.ratio) = Remaining10

\* C14: recommend_excipients(r) is empty for every r >= 100, so a non-empty
\* mapping comes back only for r < 100.
C14_EmptyFrom100 ==
  Recommended =>
    /\ suggestion.main_ratio[1] >= 1000 => suggestion.ratio = <<>>
    /\ suggestion.ratio # <<>> => suggestion.main_ratio[1] < 1000

\* r = 100 gives no excipients
C14_Witness ==
  /\ Recommended
  /\ suggestion.main_ratio = <<1000>>
  /\ suggestion.ratio = <<>>

Suggested == suggestion.op = "suggest_ratio"

\* the reference products the catalog holds for the ingredient of the call
RefsOfCall ==
  IF suggestion.ingredient_name \in DOMAIN catalog.reference_products
  THEN catalog.reference_products[suggestion.ingredient_name]
  ELSE <<>>

\* 80 for the ingredient followed by the excipients recommended for 80
DefaultSplit ==
  <<[name |-> suggestion.ingredient_name, ratio10 |-> 800]>>
    \o << [name |-> "cellulose", ratio10 |-> 100],
          [name |-> "glucose", ratio10 |-> 80],
          [name |-> "silica", ratio10 |-> 10],
          [name |-> "stearate", ratio10 |-> 10] >>

\* C15: for every ingredient and every value of main_ratio, suggest_ratio
\* returns the first reference product's ratio mapping when the catalog holds
\* a reference for the ingredient, and otherwise 80 for the ingredient plus
\* recommend_excipients(80) (an ingredient that is itself a default excipient
\* shares its key with that excipient's entry).
C15_ReferenceFirst ==
  Suggested =>
    IF RefsOfCall # <<>>
    THEN suggestion.ratio = RefsOfCall[1].ratio
    ELSE \/ suggestion.ratio = DefaultSplit
         \/ /\ suggestion.ingredient_name = "cellulose"
            /\ suggestion.ratio = Tail(DefaultSplit)

Searched == search_call.status # "none"

\* is_available() of the registered providers of the constructed manager
Avail == search_manager[1]

\* provider p is registered, available and its external call answers with entries
Yields(p) ==
  /\ p \in SearchProviders
  /\ Avail[p]
  /\ search_call.outcome[p] = "results"

\* the named provider's search is run: it is registered and available
PrimaryInvoked ==
  IF search_call.provider_name \in SearchProviders /\ Avail[search_call.provider_name]
  THEN <<search_call.provider_name>>
  ELSE <<>>

\* the fixed order without the named provider and the unavailable providers
Candidates ==
  SelectSeq(<<"DDGS", "Brave", "Tavily", "Google">>,
            LAMBDA n : n # search_call.provider_name /\ Avail[n])

\* position in Candidates of the first provider that yields, 0 if none does
FirstHit ==
  IF \E k \in 1..Len(Candidates) : Yields(Candidates[k])
  THEN CHOOSE k \in 1..Len(Candidates) :
         /\ Yields(Candidates[k])
         /\ \A j \in 1..(k - 1) : ~Yields(Candidates[j])
  ELSE 0

\* C16: with fallback enabled and a named provider that yields nothing (or no
\* named provider), the providers are run in the order DDGS, Brave, Tavily,
\* Google without the named and the unavailable ones, up to and including the
\* first that yields; its result and name are returned and none after it runs.
C16_FallbackOrder ==
  (Searched /\ search_call.use_fallback /\ ~Yields(search_call.provider_name)) =>
    /\ search_call.invoked =
         PrimaryInvoked \o
           SubSeq(Candidates, 1, IF FirstHit = 0 THEN Len(Candidates) ELSE FirstHit)
    /\ FirstHit # 0 =>
         /\ search_call.results = <<[source |-> Candidates[FirstHit]]>>
         /\ search_call.used = Candidates[FirstHit]

\* Brave is named and empty, DDGS is empty, Tavily yields; Google would yield
\* too and is not run
C16_Witness ==
  /\ Searched
  /\ search_call.use_fallback
  /\ search_call.provider_name = "Brave"
  /\ Yields("Google")
  /\ search_call.invoked = <<"Brave", "DDGS", "Tavily">>
  /\ search_call.used = "Tavily"
  /\ search_call.results = <<[source |-> "Tavily"]>>

\* C17: search returns an empty list together with an empty provider name when
\* (a) every provider it ran yielded nothing, and when (b) fallback is disabled
\* and the named provider yields nothing.
C17_EmptyListEmptyName ==
  Searched =>
    /\ (\A i \in 1..Len(search_call.invoked) : ~Yields(search_call.invoked[i]))
         => (search_call.results = <<>> /\ search_call.used = "")
    /\ (~search_call.use_fallback /\ search_call.provider_name # ""
          /\ ~Yields(search_call.provider_name))
         => (search_call.results = <<>> /\ search_call.used = "")

\* C18: a named provider that is registered, available and yields is the one
\* used: its result is returned under its name and no other provider is run,
\* with fallback enabled or not.
C18_NamedProviderUsed ==
  (Searched /\ Yields(search_call.provider_name)) =>
    /\ search_call.status = "returned"
    /\ search_call.results = <<[source |-> search_call.provider_name]>>
    /\ search_call.used = search_call.provider_name
    /\ search_call.invoked = <<search_call.provider_name>>

\* Google is named with fallback enabled while DDGS would yield as well
C18_Witness ==
  /\ Searched
  /\ search_call.use_fallback
  /\ search_call.provider_name = "Google"
  /\ Yields("Google")
  /\ Yields("DDGS")
  /\ search_call.used = "Google"
  /\ search_call.invoked = <<"Google">>

Generated == llm_call.status # "none"

\* C19: for an unknown provider name and for an unavailable provider,
\* LLMManager.generate returns (it does not raise) a response with empty text
\* content and zero token counts.
C19_EmptyContent ==
  (Generated /\ (llm_call.provider_name \notin LLMProviders
                   \/ ~llm_manager[1][llm_call.provider_name])) =>
    /\ llm_call.status = "returned"
    /\ llm_call.response.content = <<>>
    /\ llm_call.response.input_tokens = 0
    /\ llm_call.response.output_tokens = 0
    /\ llm_call.response.total_tokens = 0

\* the outcomes of the call with every failing external call answering with
\* no entries instead
FailuresAsEmpty ==
  [p \in SearchProviders |->
     IF search_call.outcome[p] = "error" THEN "empty" ELSE search_call.outcome[p]]

\* C20: a failing external call makes the provider return an empty list; the
\* search goes on exactly as if that provider had answered with no entries
\* (same providers run, same result, same name) and the call never raises.
C20_FailureIsEmpty ==
  Searched =>
    /\ search_call.status = "returned"
    /\ \A p \in SearchProviders :
         provider_search(p, TRUE, "error") = [raised |-> FALSE, results |-> <<>>]
    /\ LET r == search(Avail, search_call.provider_name,
                       search_call.use_fallback, FailuresAsEmpty)
       IN /\ r.status = "returned"
          /\ r.results = search_call.results
          /\ r.used = search_call.used
          /\ r.invoked = search_call.invoked

\* the named DDGS fails, the fallback goes on to Brave, which yields
C20_Witness ==
  /\ Searched
  /\ search_call.provider_name = "DDGS"
  /\ Avail["DDGS"]
  /\ search_call.outcome["DDGS"] = "error"
  /\ search_call.invoked = <<"DDGS", "Brave">>
  /\ search_call.used = "Brave"
  /\ search_call.results # <<>>

\* the rates of the per-model table, in hundredths of a USD per million tokens
RateIn(model) ==
  CASE model = "gemini-2.0-flash" -> 10
    [] model = "gpt-5-nano" -> 5
    [] model = "gpt-5-mini" -> 25
    [] model = "gpt-4o-mini" -> 15
    [] OTHER -> 0

RateOut(model) ==
  CASE model = "gemini-2.0-flash" -> 40
    [] model = "gpt-5-nano" -> 40
    [] model = "gpt-5-mini" -> 200
    [] model = "gpt-4o-mini" -> 60
    [] OTHER -> 0

\* C21: the estimated cost of a response is input_tokens x input rate +
\* output_tokens x output rate of its model (over 1,000,000), 0 for a model
\* outside the table; a response with zero token counts costs 0.
C21_EstimatedCost ==
  Generated =>
    /\ llm_call.cost =
         llm_call.response.input_tokens * RateIn(llm_call.response.model)
           + llm_call.response.output_tokens * RateOut(llm_call.response.model)
    /\ llm_call.response.model = "" => llm_call.cost = 0
    /\ (llm_call.response.input_tokens = 0 /\ llm_call.response.output_tokens = 0)
         => llm_call.cost = 0

\* 1000 input and 7 output tokens of gpt-5-mini cost 0.000264 USD
C21_Witness ==
  /\ Generated
  /\ llm_call.response.model = "gpt-5-mini"
  /\ llm_call.response.input_tokens = 1000
  /\ llm_call.response.output_tokens = 7
  /\ llm_call.cost = 26400

PositiveMass == result.status # "none" /\ GPerBox > 0

\* C22: for a spec with positive per-box mass the returned spec meets both MOQ
\* floors: boxes >= min_boxes and total mass >= min_kg, whichever of the two
\* adjustments fired.
C22_BothFloors ==
  PositiveMass =>
    /\ Returned
    /\ result.product_spec.boxes >= MinBoxes
    /\ GPerBox * result.product_spec.boxes >= MinG

\* both adjustments fire on one spec: the box floor, then the mass floor
C22_Witness ==
  /\ Returned
  /\ GPerBox > 0
  /\ BoxFloorFires
  /\ MassFloorFires
  /\ result.product_spec.boxes > MinBoxes
  /\ MinBoxes > 0

\* C26: for a spec with positive per-box mass calculate never lowers the box
\* count: original_boxes is the requested count, the returned count is at
\* least that, and moq_applied holds exactly when the two differ.
C26_NeverLowers ==
  PositiveMass =>
    /\ result.original_boxes = spec.boxes
    /\ result.product_spec.boxes >= result.original_boxes
    /\ result.moq_applied <=> (result.product_spec.boxes # result.original_boxes)

\* the mass floor alone raises a request that already meets the box floor
C26_Witness ==
  /\ Returned
  /\ GPerBox > 0
  /\ ~BoxFloorFires
  /\ result.moq_applied
  /\ result.original_boxes = spec.boxes
  /\ result.product_spec.boxes > spec.boxes
  /\ spec.boxes > 0

\* position of a warning kind in the order MOQ, missing ingredients, unknown type
KindRank(kind) ==
  CASE kind = "moq" -> 1
    [] kind = "missing" -> 2
    [] kind = "unknown_type" -> 3
    [] OTHER -> 0

\* the names of the requested ratios that the catalog does not hold, in order
MissingNames ==
  LET names == [i \in 1..Len(spec.ingredient_ratios) |->
                  spec.ingredient_ratios[i].name]
  IN SelectSeq(names, LAMBDA n : n \notin DOMAIN catalog.ingredients)

\* C27: the warnings hold at most one MOQ warning, at most one
\* missing-ingredient warning (naming all missing ingredients in the order of
\* the ratios) and at most one unknown-product-type warning, in that order,
\* and nothing else.
C27_WarningOrder ==
  Returned =>
    /\ \A i \in 1..Len(result.warnings) : KindRank(result.warnings[i][1]) # 0
    /\ \A i, j \in 1..Len(result.warnings) :
         i < j => KindRank(result.warnings[i][1]) < KindRank(result.warnings[j][1])
    /\ \A i \in 1..Len(result.warnings) :
         result.warnings[i][1] = "missing" => result.warnings[i][2] = MissingNames

\* all three warnings on one quote, two ingredients missing
C27_Witness ==
  /\ Returned
  /\ Len(result.warnings) = 3
  /\ result.warnings[1][1] = "moq"
  /\ result.warnings[2] = <<"missing", <<"unobtainium", "cellulose">> >>
  /\ result.warnings[3][1] = "unknown_type"

\* C28: calculate applied to the product_spec of a result it returned, under
\* the same catalog, applies no MOQ adjustment and gives the same box count,
\* the same three costs, the same total and the same per-box price.
C28_Idempotent ==
  Returned =>
    LET again == calculate(result.product_spec)
    IN /\ again.status = "returned"
       /\ ~again.moq_applied
       /\ again.product_spec.boxes = result.product_spec.boxes
       /\ again.ingredient_cost = result.ingredient_cost
       /\ again.packaging_cost = result.packaging_cost
       /\ again.processing_cost = result.processing_cost
       /\ again.total_cost = result.total_cost
       /\ again.price_per_box = result.price_per_box

\* a quote whose box count the mass floor raised, at a non-zero price
C28_Witness ==
  /\ Returned
  /\ result.moq_applied
  /\ MassFloorFires
  /\ result.product_spec.boxes # spec.boxes
  /\ result.price_per_box > 0

\* C23: with a provider named and fallback disabled, search runs no provider
\* other than the named one, whether that provider returns nothing, is
\* unavailable, or is not registered.
C23_NoFallbackWhenDisabled ==
  (Searched /\ search_call.provider_name # "" /\ ~search_call.use_fallback) =>
    \A i \in 1..Len(search_call.invoked) :
      search_call.invoked[i] = search_call.provider_name

\* C30: within one search call each provider is run at most once and only if
\* it reports itself available, so a call runs at most four providers.
C30_AtMostOnce ==
  Searched =>
    /\ \A i, j \in 1..Len(search_call.invoked) :
         i # j => search_call.invoked[i] # search_call.invoked[j]
    /\ \A i \in 1..Len(search_call.invoked) :
         /\ search_call.invoked[i] \in SearchProviders
         /\ Avail[search_call.invoked[i]]
    /\ Len(search_call.invoked) <= 4

\* all four providers are run, the named Tavily first, and none yields
C30_Witness ==
  /\ Searched
  /\ search_call.provider_name = "Tavily"
  /\ search_call.invoked = <<"Tavily", "DDGS", "Brave", "Google">>
  /\ search_call.results = <<>>

\* the share the returned mapping holds for a name, 0 when it holds none
ShareOf(name) ==
  IF \E i \in 1..Len(suggestion.ratio) : suggestion.ratio[i].name = name
  THEN LET i == CHOOSE i \in 1..Len(suggestion.ratio) :
                  suggestion.ratio[i].name = name
       IN suggestion.ratio[i].ratio10
  ELSE 0

\* v tenths is default_ratio x (100 - r) / 20 rounded to one decimal
IsRounded(v, default_ratio) ==
  Dist(20 * v, default_ratio * Remaining10) <= 10

\* the first position holding the largest of the four rounded shares
FirstLargest(rounded) ==
  CHOOSE k \in 1..4 :
    /\ \A j \in 1..4 : rounded[j] <= rounded[k]
    /\ \A j \in 1..(k - 1) : rounded[j] < rounded[k]

\* C24: for r < 100 each default excipient gets its default ratio x (100 - r)
\* / 20 rounded to one decimal, and the whole residual (100 - r minus the sum
\* of the rounded shares) goes to exactly one excipient, the first in insertion
\* order among those with the largest rounded share; the others stay as rounded.
C24_ResidualToLargest ==
  (Recommended /\ suggestion.main_ratio[1] < 1000) =>
    /\ \A i \in 1..Len(suggestion.ratio) :
         \E k \in 1..4 : suggestion.ratio[i].name = DEFAULT_EXCIPIENTS[k].name
    /\ \E off \in [1..4 -> {0, 1}] :
         LET rounded == [i \in 1..4 |->
                           (DEFAULT_EXCIPIENTS[i].ratio * Remaining10) \div 20 + off[i]]
             residual == Remaining10
                           - (rounded[1] + rounded[2] + rounded[3] + rounded[4])
             largest == FirstLargest(rounded)
         IN /\ \A i \in 1..4 : IsRounded(rounded[i], DEFAULT_EXCIPIENTS[i].ratio)
            /\ \A i \in 1..4 :
                 ShareOf(DEFAULT_EXCIPIENTS[i].name) =
                   rounded[i] + (IF i = largest THEN residual ELSE 0)

\* C29: for every ingredient name and every main ratio r with 0 <= r < 100 the
\* mapping {ingredient: r} merged with recommend_excipients(r) holds r for the
\* main ingredient and its values sum to 100 within 0.1.
C29_FormulationSumsTo100 ==
  (Suggested /\ suggestion.main_ratio # <<>> /\ suggestion.main_ratio[1] < 1000) =>
    /\ ShareOf(suggestion.ingredient_name) = suggestion.main_ratio[1]
    /\ Dist(SumRatio10(suggestion.ratio), 1000) <= 1

====
